---- MODULE Spec2Model ----
(***************************************************************************)
(* Model of the product-catalogue service: the command line entry point,   *)
(* the spreadsheet import pipeline, the HTTP handlers, the product service *)
(* and the Elasticsearch repository.  The search engine itself is an       *)
(* external collaborator: its answers are chosen nondeterministically      *)
(* among the outcomes its client library can report.                       *)
(*                                                                         *)
(* Go strings are sequences of one-character strings, so that parsing      *)
(* (strconv.Atoi, the CSV dialect, strings.ToLower, substring matching)    *)
(* is computed and not assumed.                                            *)
(***************************************************************************)
EXTENDS Integers, Sequences, FiniteSets, TLC

VARIABLES
    pc,          \* position of the process: see main
    runs,        \* how many times the process has been started
    env,         \* the .env file: [readable, index]
    importPath,  \* value of the --import-excel flag
    cfg,         \* the loaded configuration: [Index]
    exitCode,    \* -1 while the process runs, else its exit status
    appCreated,  \* app.New has been called in this process
    listening,   \* the HTTP listener has been started in this process
    importErr,   \* what ImportFromExcel returned: "pending", "nil" or an error
    startErr,    \* what Application.Start returned: "pending", "nil" or an error
    indices,     \* the engine's indices: name -> [exists, docs]
    esLog,       \* engine calls issued by the current import run or by the last request
    lines,       \* import: the lines of the downloaded export
    columnMap,   \* import: header name -> column position
    products,    \* import: the parsed products
    bulkBody,    \* import: the documents accumulated in the bulk buffer
    idx,         \* import: number of products the bulk loop has consumed
    request,     \* the HTTP request handled last
    response,    \* its response
    svcCalls     \* how many times that request called ProductService.GetProducts

vars == <<pc, runs, env, importPath, cfg, exitCode, appCreated, listening, importErr,
          startErr, indices, esLog, lines, columnMap, products, bulkBody, idx,
          request, response, svcCalls>>

----------------------------------------------------------------------------
(* Bounds of the model *)

\* Go's int is scaled to 8 bits: values MinInt..MaxInt
MaxInt == 127
\* the process is started at most MaxRuns times
MaxRuns == 2

MinInt == -MaxInt - 1
\* Go's uint64, scaled like int: values 0..MaxUint
MaxUint == 2 * MaxInt + 1

----------------------------------------------------------------------------
(* Strings *)

Digits == {"0", "1", "2", "3", "4", "5", "6", "7", "8", "9"}

DigitVal(c) ==
    CASE c = "0" -> 0 [] c = "1" -> 1 [] c = "2" -> 2 [] c = "3" -> 3 [] c = "4" -> 4
      [] c = "5" -> 5 [] c = "6" -> 6 [] c = "7" -> 7 [] c = "8" -> 8 [] c = "9" -> 9

DigitChar(d) == <<"0", "1", "2", "3", "4", "5", "6", "7", "8", "9">>[d + 1]

UpperLetters == <<"A", "B", "C", "D", "E", "F", "G", "H", "I", "J", "K", "L", "M",
                  "N", "O", "P", "Q", "R", "S", "T", "U", "V", "W", "X", "Y", "Z">>
LowerLetters == <<"a", "b", "c", "d", "e", "f", "g", "h", "i", "j", "k", "l", "m",
                  "n", "o", "p", "q", "r", "s", "t", "u", "v", "w", "x", "y", "z">>

\* strings.ToLower, one character
ToLowerChar(c) ==
    IF \E k \in 1..26 : UpperLetters[k] = c
    THEN LowerLetters[CHOOSE k \in 1..26 : UpperLetters[k] = c]
    ELSE c

\* strings.ToLower
ToLower(s) == [k \in 1..Len(s) |-> ToLowerChar(s[k])]

\* strings.Contains(s, sub)
Contains(s, sub) ==
    \E k \in 0..(Len(s) - Len(sub)) : SubSeq(s, k + 1, k + Len(sub)) = sub

\* the value of a run of decimal digits, capped just above limit so that no
\* intermediate value leaves the range of TLC's integers
RECURSIVE DigitsValue(_, _, _)
DigitsValue(s, acc, limit) ==
    IF s = <<>> THEN acc
    ELSE LET n == acc * 10 + DigitVal(Head(s))
         IN  DigitsValue(Tail(s), IF n > limit THEN limit + 1 ELSE n, limit)

AllDigits(s) == s # <<>> /\ \A k \in 1..Len(s) : s[k] \in Digits

\* strconv.Atoi: an optional sign, then decimal digits, within the range of int
Atoi(s) ==
    LET signed == s # <<>> /\ s[1] \in {"+", "-"}
        neg    == s # <<>> /\ s[1] = "-"
        body   == IF signed THEN Tail(s) ELSE s
        n      == DigitsValue(body, 0, MaxInt + 1)
    IN  IF ~AllDigits(body) THEN [ok |-> FALSE, val |-> 0]
        ELSE IF neg /\ n <= MaxInt + 1 THEN [ok |-> TRUE, val |-> -n]
        ELSE IF ~neg /\ n <= MaxInt THEN [ok |-> TRUE, val |-> n]
        ELSE [ok |-> FALSE, val |-> 0]

\* strconv.ParseUint(s, 10, 64): decimal digits only, within the range of uint64
ParseUint(s) ==
    LET n == DigitsValue(s, 0, MaxUint)
    IN  IF AllDigits(s) /\ n <= MaxUint THEN [ok |-> TRUE, val |-> n]
        ELSE [ok |-> FALSE, val |-> 0]

\* fmt.Sprintf("%d", n) for n >= 0
RECURSIVE FormatUint(_)
FormatUint(n) ==
    IF n < 10 THEN <<DigitChar(n)>>
    ELSE FormatUint(n \div 10) \o <<DigitChar(n % 10)>>

Abs(n) == IF n < 0 THEN -n ELSE n

\* a Go int result, wrapped to the width of int
WrapInt(n) == ((n - MinInt) % (2 * (MaxInt + 1))) + MinInt

----------------------------------------------------------------------------
(* Text used by the program and by the inputs of the model *)

W_id           == <<"i", "d">>
W_product_name == <<"p", "r", "o", "d", "u", "c", "t", "_", "n", "a", "m", "e">>
W_drug_generic == <<"d", "r", "u", "g", "_", "g", "e", "n", "e", "r", "i", "c">>
W_company      == <<"c", "o", "m", "p", "a", "n", "y">>
W_10           == <<"1", "0">>
W_0            == <<"0">>
W_Aspirin      == <<"A", "s", "p", "i", "r", "i", "n">>
W_Aspir        == <<"A", "s", "p", "i", "r">>
W_ASA          == <<"A", "S", "A">>
W_Acme         == <<"A", "c", "m", "e">>
W_Ibu          == <<"I", "b", "u">>
W_zz           == <<"z", "z">>

----------------------------------------------------------------------------
(* models.Product and the documents of the index *)

\* an index of the engine: absent, or present with its documents in the order
\* they were first written
NoIndex == [exists |-> FALSE, docs |-> <<>>]
IndexOf(docs) == [exists |-> TRUE, docs |-> docs]

Product(id, name, generic, company, score, stamp) ==
    [ID |-> id, ProductName |-> name, DrugGeneric |-> generic, Company |-> company,
     Score |-> score, CreatedAt |-> stamp, UpdatedAt |-> stamp]

ZeroProduct == Product(0, <<>>, <<>>, <<>>, 0, 0)

----------------------------------------------------------------------------
(* The repository: internal/storage/elasticsearch/repository.go *)

\* a faulty variant of buildProductQuery: with a keyword, a size below 1 is
\* replaced by the default page size
buildProductQueryClamped(params) ==
    IF params.Keyword # <<>>
    THEN [from |-> params.Offset,
          size |-> IF params.Limit < 1 THEN 10 ELSE params.Limit,
          query |-> [kind |-> "bool_should",
                     match |-> params.Keyword, operator |-> "and", fuzziness |-> "AUTO",
                     wildcard |-> <<"*">> \o params.Keyword \o <<"*">>,
                     fields |-> <<W_product_name, W_drug_generic, W_company>>],
          sort |-> <<"_score desc", "product_name.keyword asc">>]
    ELSE [from |-> params.Offset, size |-> params.Limit,
          query |-> [kind |-> "none", match |-> <<>>, operator |-> "", fuzziness |-> "",
                     wildcard |-> <<>>, fields |-> <<>>],
          sort |-> <<>>]

\* a faulty variant of buildProductQuery: the boolean query is built whatever
\* the keyword
buildProductQueryAlwaysBool(params) ==
    [from |-> params.Offset, size |-> params.Limit,
     query |-> [kind |-> "bool_should",
                match |-> params.Keyword, operator |-> "and", fuzziness |-> "AUTO",
                wildcard |-> <<"*">> \o params.Keyword \o <<"*">>,
                fields |-> <<W_product_name, W_drug_generic, W_company>>],
     sort |-> <<"_score desc", "product_name.keyword asc">>]

\* the search body built from the parameters
buildProductQuery(params) ==
    IF params.Keyword # <<>>
    THEN [from |-> params.Offset, size |-> params.Limit,
          query |-> [kind |-> "bool_should",
                     match |-> params.Keyword, operator |-> "and", fuzziness |-> "AUTO",
                     wildcard |-> <<"*">> \o params.Keyword \o <<"*">>,
                     fields |-> <<W_product_name, W_drug_generic, W_company>>],
          sort |-> <<"_score desc", "product_name.keyword asc">>]
    ELSE [from |-> params.Offset, size |-> params.Limit,
          query |-> [kind |-> "none", match |-> <<>>, operator |-> "", fuzziness |-> "",
                     wildcard |-> <<>>, fields |-> <<>>],
          sort |-> <<>>]

\* the total hit count of a decoded response, 0 when absent or malformed
extractTotalCount(body) ==
    IF body.hitsField # "object" THEN 0
    ELSE IF body.totalField # "object" THEN 0
    ELSE IF body.totalValue # "number" THEN 0
    ELSE body.total

\* uint64(id) of an int
IntToUint64(n) == IF n < 0 THEN n + MaxUint + 1 ELSE n

\* a faulty variant of hitToProduct: an identifier that does not convert leaves
\* the identifier of the product at zero
hitToProductZeroId(hit) ==
    IF hit.shape # "object" THEN [skip |-> TRUE, product |-> ZeroProduct]
    ELSE IF hit.source = "mismatch" THEN [skip |-> TRUE, product |-> ZeroProduct]
    ELSE
      LET base   == IF hit.source = "object" THEN hit.doc ELSE ZeroProduct
          parsed == Atoi(hit.id)
          withId == IF hit.idKind = "string" /\ parsed.ok
                    THEN [base EXCEPT !.ID = IntToUint64(parsed.val)]
                    ELSE [base EXCEPT !.ID = 0]
          scored == IF hit.scoreKind = "number"
                    THEN [withId EXCEPT !.Score = hit.score]
                    ELSE withId
      IN  [skip |-> FALSE, product |-> scored]

\* one hit of the response mapped to a Product; skip = TRUE when the hit is dropped
hitToProduct(hit) ==
    IF hit.shape # "object" THEN [skip |-> TRUE, product |-> ZeroProduct]
    ELSE IF hit.source = "mismatch" THEN [skip |-> TRUE, product |-> ZeroProduct]
    ELSE
      LET base   == IF hit.source = "object" THEN hit.doc ELSE ZeroProduct
          parsed == Atoi(hit.id)
          withId == IF hit.idKind = "string" /\ parsed.ok
                    THEN [base EXCEPT !.ID = IntToUint64(parsed.val)]
                    ELSE base
          scored == IF hit.scoreKind = "number"
                    THEN [withId EXCEPT !.Score = hit.score]
                    ELSE withId
      IN  [skip |-> FALSE, product |-> scored]

\* a faulty variant of hitsToProducts: the loop is left at the first hit that
\* is dropped
RECURSIVE hitsToProductsUntilDropped(_)
hitsToProductsUntilDropped(hs) ==
    IF hs = <<>> THEN <<>>
    ELSE IF hitToProduct(Head(hs)).skip THEN <<>>
    ELSE <<hitToProduct(Head(hs)).product>> \o hitsToProductsUntilDropped(Tail(hs))

\* the products of the hits, in the order of the hits, dropped hits left out

RECURSIVE hitsToProducts(_)
hitsToProducts(hs) ==
    IF hs = <<>> THEN <<>>
    ELSE LET h == hitToProduct(Head(hs))
         IN  (IF h.skip THEN <<>> ELSE <<h.product>>) \o hitsToProducts(Tail(hs))

\* the products of a decoded response; panics when the response has no hits object
extractProductsFromResponse(body) ==
    IF body.hitsField # "object" THEN [panic |-> TRUE, products |-> <<>>]
    ELSE IF body.hitsArray # "array" THEN [panic |-> FALSE, products |-> <<>>]
    ELSE [panic |-> FALSE, products |-> hitsToProducts(body.hits)]

EmptyResult == [Products |-> <<>>, TotalCount |-> 0, Limit |-> 0, Offset |-> 0]

\* FindProducts, given what the engine answered to its one search request
FindProducts(params, res) ==
    IF res.transport # "ok"
    THEN [status |-> "err", err |-> "search request failed", result |-> EmptyResult]
    ELSE IF res.isError
    THEN IF ~res.body.decodable
         THEN [status |-> "err", err |-> "error parsing elasticsearch error response",
               result |-> EmptyResult]
         ELSE IF res.body.errorField # "object"
         THEN [status |-> "panic", err |-> "interface conversion", result |-> EmptyResult]
         ELSE [status |-> "err", err |-> "elasticsearch error", result |-> EmptyResult]
    ELSE IF ~res.body.decodable
    THEN [status |-> "err", err |-> "failed to parse response", result |-> EmptyResult]
    ELSE LET ex == extractProductsFromResponse(res.body)
         IN  IF ex.panic
             THEN [status |-> "panic", err |-> "interface conversion", result |-> EmptyResult]
             ELSE [status |-> "ok", err |-> "",
                   result |-> [Products |-> ex.products,
                               TotalCount |-> extractTotalCount(res.body),
                               Limit |-> params.Limit, Offset |-> params.Offset]]

----------------------------------------------------------------------------
(* The service: internal/services/product.go *)

\* math.Ceil(float64(a) / float64(b)) for a > 0, b > 0
CeilDiv(a, b) == (a + b - 1) \div b

\* Go's integer division: the quotient is truncated toward zero, and a zero
\* divisor is a run-time panic
GoDiv(a, b) ==
    IF b = 0 THEN [panic |-> TRUE, val |-> 0]
    ELSE [panic |-> FALSE,
          val |-> IF (a < 0) = (b < 0) THEN Abs(a) \div Abs(b) ELSE -(Abs(a) \div Abs(b))]

\* a faulty variant of currentPage: the division is not guarded by Limit > 0
currentPageUnguarded(params) ==
    [panic |-> GoDiv(params.Offset, params.Limit).panic,
     val   |-> WrapInt(GoDiv(params.Offset, params.Limit).val + 1)]

\* the page of the offset; the division is made only for a positive limit
currentPage(params) ==
    IF params.Limit > 0
    THEN [panic |-> GoDiv(params.Offset, params.Limit).panic,
          val   |-> WrapInt(GoDiv(params.Offset, params.Limit).val + 1)]
    ELSE [panic |-> FALSE, val |-> 1]

\* a faulty variant of totalPages: the quotient is truncated instead of rounded up
totalPagesRoundedDown(params, totalCount) ==
    IF params.Limit > 0 /\ totalCount > 0 THEN totalCount \div params.Limit ELSE 1

\* the number of pages: 1 unless the limit and the total count are positive
totalPages(params, totalCount) ==
    IF params.Limit > 0 /\ totalCount > 0 THEN CeilDiv(totalCount, params.Limit) ELSE 1

EmptyServiceResult ==
    [Products |-> <<>>, TotalCount |-> 0, Limit |-> 0, Offset |-> 0,
     CurrentPage |-> 0, TotalPages |-> 0]

\* ProductServiceImpl.GetProducts, given the repository's answer
GetProducts(params, found) ==
    IF found.status # "ok"
    THEN [status |-> found.status, err |-> found.err, result |-> EmptyServiceResult]
    ELSE IF currentPage(params).panic
    THEN [status |-> "panic", err |-> "integer divide by zero", result |-> EmptyServiceResult]
    ELSE [status |-> "ok", err |-> "",
          result |-> [Products    |-> found.result.Products,
                      TotalCount  |-> found.result.TotalCount,
                      Limit       |-> params.Limit,
                      Offset      |-> params.Offset,
                      CurrentPage |-> currentPage(params).val,
                      TotalPages  |-> totalPages(params, found.result.TotalCount)]]

----------------------------------------------------------------------------
(* The search engine, as seen through its client *)

IndexNames == {"products", "documents", "items"}

\* does a stored document satisfy the search body (the wildcard clause: the
\* keyword occurs in one of the three text fields)
Matches(doc, q) ==
    \/ q.query.kind = "none"
    \/ Contains(doc.source.ProductName, q.query.match)
    \/ Contains(doc.source.DrugGeneric, q.query.match)
    \/ Contains(doc.source.Company, q.query.match)

Hit(doc) ==
    [shape |-> "object", idKind |-> "string", id |-> doc.id,
     scoreKind |-> "number", score |-> 1, source |-> "object", doc |-> doc.source]

NoBody ==
    [decodable |-> FALSE, errorField |-> "absent", hitsField |-> "absent",
     totalField |-> "absent", totalValue |-> "absent", total |-> 0,
     hitsArray |-> "absent", hits |-> <<>>]

ErrorBody(shape) == [NoBody EXCEPT !.decodable = TRUE, !.errorField = shape]

ResultBody(total, hits) ==
    [decodable |-> TRUE, errorField |-> "absent", hitsField |-> "object",
     totalField |-> "object", totalValue |-> "number", total |-> total,
     hitsArray |-> "array", hits |-> hits]

\* the ways a search can go wrong that do not depend on the index
SearchFaults ==
    {"none", "transport", "status_object", "status_string", "status_absent",
     "status_undecodable", "ok_undecodable",
     "foreign_ids", "malformed_hits", "no_total", "bad_total", "no_hits_object",
     "hits_not_array"}

\* hits of documents that the import did not write, as the engine can return
\* them: an identifier that is not a number, an identifier that is not a string,
\* a hit without source or score, a hit that is not an object, a source that
\* does not fit models.Product
Hit_foreign ==
    [shape |-> "object", idKind |-> "string", id |-> <<"a", "b", "c">>,
     scoreKind |-> "number", score |-> 2, source |-> "object",
     doc |-> Product(42, W_Aspirin, W_ASA, W_Acme, 0, 1)]
Hit_numberId ==
    [shape |-> "object", idKind |-> "number", id |-> <<>>,
     scoreKind |-> "number", score |-> 1, source |-> "object",
     doc |-> Product(9, W_Ibu, W_ASA, W_Acme, 0, 1)]
Hit_noSource ==
    [shape |-> "object", idKind |-> "string", id |-> <<"x", "7">>,
     scoreKind |-> "absent", score |-> 0, source |-> "absent", doc |-> ZeroProduct]
Hit_text ==
    [shape |-> "string", idKind |-> "absent", id |-> <<>>,
     scoreKind |-> "absent", score |-> 0, source |-> "absent", doc |-> ZeroProduct]
Hit_mismatch ==
    [shape |-> "object", idKind |-> "string", id |-> <<"5">>,
     scoreKind |-> "number", score |-> 1, source |-> "mismatch", doc |-> ZeroProduct]
Hit_good(k) ==
    Hit([id |-> FormatUint(k), source |-> Product(k, W_Aspirin, W_ASA, W_Acme, 0, 1)])

\* what the engine answers to a search on index name with body q
EngineSearch(idxs, name, q, fault) ==
    CASE fault = "transport" ->
           [transport |-> "fail", isError |-> FALSE, body |-> NoBody]
      [] fault = "status_object" ->
           [transport |-> "ok", isError |-> TRUE, body |-> ErrorBody("object")]
      [] fault = "status_string" ->
           [transport |-> "ok", isError |-> TRUE, body |-> ErrorBody("string")]
      [] fault = "status_absent" ->
           [transport |-> "ok", isError |-> TRUE, body |-> ErrorBody("absent")]
      [] fault = "status_undecodable" ->
           [transport |-> "ok", isError |-> TRUE, body |-> NoBody]
      [] fault = "ok_undecodable" ->
           [transport |-> "ok", isError |-> FALSE, body |-> NoBody]
      [] fault = "foreign_ids" ->
           [transport |-> "ok", isError |-> FALSE,
            body |-> ResultBody(3, <<Hit_foreign, Hit_numberId, Hit_noSource>>)]
      [] fault = "malformed_hits" ->
           [transport |-> "ok", isError |-> FALSE,
            body |-> ResultBody(5, <<Hit_good(3), Hit_text, Hit_mismatch, Hit_good(1),
                                     Hit_text>>)]
      [] fault = "no_total" ->
           [transport |-> "ok", isError |-> FALSE,
            body |-> [ResultBody(1, <<Hit_good(1)>>) EXCEPT !.totalField = "absent",
                                                           !.totalValue = "absent"]]
      [] fault = "bad_total" ->
           [transport |-> "ok", isError |-> FALSE,
            body |-> [ResultBody(1, <<Hit_good(1)>>) EXCEPT !.totalValue = "string"]]
      [] fault = "no_hits_object" ->
           [transport |-> "ok", isError |-> FALSE,
            body |-> [NoBody EXCEPT !.decodable = TRUE]]
      [] fault = "hits_not_array" ->
           [transport |-> "ok", isError |-> FALSE,
            body |-> [ResultBody(2, <<>>) EXCEPT !.hitsArray = "object"]]
      [] OTHER ->
           IF ~idxs[name].exists \/ q.from < 0 \/ q.size < 0
           THEN [transport |-> "ok", isError |-> TRUE, body |-> ErrorBody("object")]
           ELSE LET matching == SelectSeq(idxs[name].docs, LAMBDA d : Matches(d, q))
                    last     == IF q.from + q.size < Len(matching)
                                THEN q.from + q.size ELSE Len(matching)
                    page     == SubSeq(matching, q.from + 1, last)
                IN  [transport |-> "ok", isError |-> FALSE,
                     body |-> ResultBody(Len(matching),
                                         [k \in 1..Len(page) |-> Hit(page[k])])]

----------------------------------------------------------------------------
(* The HTTP handlers: internal/api *)

\* the index the repository of RegisterRoute searches
RepositoryIndex == "products"

NoPagination ==
    [total |-> 0, limit |-> 0, offset |-> 0, current_page |-> 0, total_pages |-> 0]

\* common.NewError under the given status
ErrorResponse(status, message) ==
    [status |-> status, is_success |-> FALSE, message |-> message, data |-> <<>>,
     pagination |-> NoPagination, body |-> "error"]

NoResponse ==
    [status |-> 0, is_success |-> FALSE, message |-> "", data |-> <<>>,
     pagination |-> NoPagination, body |-> ""]

NoRequest == [path |-> "", limit |-> <<>>, offset |-> <<>>, keyword |-> <<>>]

\* fiber's c.Query(key, default): the default stands in for an absent or empty value
Query(value, default) == IF value = <<>> THEN default ELSE value

\* the envelope the handler writes for what the service returned
Respond(got) ==
    CASE got.status = "ok" ->
           [status |-> 200, is_success |-> TRUE,
            message |-> "Products retrieved successfully",
            data |-> got.result.Products,
            pagination |-> [total        |-> got.result.TotalCount,
                            limit        |-> got.result.Limit,
                            offset       |-> got.result.Offset,
                            current_page |-> got.result.CurrentPage,
                            total_pages  |-> got.result.TotalPages],
            body |-> "paged"]
      [] got.status = "err" ->
           ErrorResponse(500, "Failed to retrieve products")
      [] OTHER ->
           \* a panic: the recover middleware hands it to the error handler
           ErrorResponse(500, "Internal Server Error")

\* the handler once the parameters are parsed: the service is called, the
\* service calls the repository, the repository sends one search request
CallService(idxs, params, fault) ==
    [response |-> Respond(GetProducts(params,
                     FindProducts(params,
                        EngineSearch(idxs, RepositoryIndex, buildProductQuery(params),
                                     fault)))),
     calls |-> <<[op |-> "search", index |-> RepositoryIndex,
                  body |-> buildProductQuery(params), fault |-> fault,
                  outcome |-> FindProducts(params,
                                 EngineSearch(idxs, RepositoryIndex,
                                              buildProductQuery(params), fault)).status]>>,
     svc |-> 1]

\* a faulty variant of AfterAtoi: the error of the offset conversion is ignored
AfterAtoiLimitOnly(idxs, req, fault, limit, offset) ==
    IF ~limit.ok
    THEN [response |-> ErrorResponse(400, "Invalid limit parameter"),
          calls |-> <<>>, svc |-> 0]
    ELSE CallService(idxs, [Limit |-> limit.val, Offset |-> offset.val,
                            Keyword |-> req.keyword], fault)

\* the handler once limit and offset went through strconv.Atoi
AfterAtoi(idxs, req, fault, limit, offset) ==
    IF ~limit.ok
    THEN [response |-> ErrorResponse(400, "Invalid limit parameter"),
          calls |-> <<>>, svc |-> 0]
    ELSE IF ~offset.ok
    THEN [response |-> ErrorResponse(400, "Invalid offset parameter"),
          calls |-> <<>>, svc |-> 0]
    ELSE CallService(idxs, [Limit |-> limit.val, Offset |-> offset.val,
                            Keyword |-> req.keyword], fault)

\* ProductHandler.GetProducts on request req; fault is how the engine behaves.
\* Gives the response, the engine calls made and the number of service calls.
HandlerGetProducts(idxs, req, fault) ==
    AfterAtoi(idxs, req, fault, Atoi(Query(req.limit, W_10)), Atoi(Query(req.offset, W_0)))

\* a faulty variant of Health: the engine is probed and its failure reported
HandlerHealthProbing ==
    [response |-> [status |-> 503, is_success |-> FALSE, message |-> "", data |-> <<>>,
                   pagination |-> NoPagination, body |-> "{\"status\":\"unavailable\"}"],
     calls |-> <<[op |-> "info", index |-> ""]>>, svc |-> 0]

\* handlers.Health
HandlerHealth ==
    [response |-> [status |-> 200, is_success |-> FALSE, message |-> "", data |-> <<>>,
                   pagination |-> NoPagination, body |-> "{\"status\":\"ok\"}"],
     calls |-> <<>>, svc |-> 0]

----------------------------------------------------------------------------
(* The import pipeline: internal/storage/elasticsearch/importer.go *)

W_sheets ==
    <<"d", "o", "c", "s", ".", "g", "o", "o", "g", "l", "e", ".", "c", "o", "m", "/", "s",
      "p", "r", "e", "a", "d", "s", "h", "e", "e", "t", "s">>

\* the bulk loop sends a request every batchSize products
batchSize == 100

requiredColumns == <<W_id, W_product_name, W_drug_generic, W_company>>

NoError == [kind |-> "none", detail |-> <<>>]
NilError == [kind |-> "nil", detail |-> <<>>]
Error(kind) == [kind |-> kind, detail |-> <<>>]

\* the characters of the class [a-zA-Z0-9-_]
IdChars ==
    {UpperLetters[k] : k \in 1..26} \cup {LowerLetters[k] : k \in 1..26}
        \cup Digits \cup {"-", "_"}

\* the longest prefix of s made of characters of IdChars
IdRun(s) ==
    LET others == {k \in 1..Len(s) : s[k] \notin IdChars}
    IN  IF others = {} THEN s
        ELSE SubSeq(s, 1, (CHOOSE a \in others : \A b \in others : a <= b) - 1)

\* extractSpreadsheetID: the leftmost match of /d/([a-zA-Z0-9-_]+)
extractSpreadsheetID(url) ==
    LET starts == {k \in 1..(Len(url) - 3) :
                      /\ SubSeq(url, k, k + 2) = <<"/", "d", "/">>
                      /\ url[k + 3] \in IdChars}
    IN  IF starts = {} THEN [ok |-> FALSE, id |-> <<>>]
        ELSE LET k == CHOOSE a \in starts : \A b \in starts : a <= b
             IN  [ok |-> TRUE, id |-> IdRun(SubSeq(url, k + 3, Len(url)))]

\* strings.Split(s, "\n"): the lines between the line feeds of s.  The text is
\* cut at the line feed nearest to its middle and both parts are split, which
\* gives the same lines as a scan from the left and keeps the evaluation shallow.
RECURSIVE SplitLines(_)
SplitLines(s) ==
    LET feeds == {k \in 1..Len(s) : s[k] = "\n"}
        mid   == (Len(s) + 1) \div 2
        k     == CHOOSE a \in feeds : \A b \in feeds :
                     \/ Abs(a - mid) < Abs(b - mid)
                     \/ (Abs(a - mid) = Abs(b - mid) /\ a <= b)
    IN  IF feeds = {} THEN <<s>>
        ELSE SplitLines(SubSeq(s, 1, k - 1)) \o SplitLines(SubSeq(s, k + 1, Len(s)))

\* the cutset of strings.Trim in parseCSVLine
TrimSet == {"\"", " ", "\t", "\r", "\n"}

\* strings.Trim(s, cutset): s without its leading and trailing cutset characters
Trim(s) ==
    LET keep == {k \in 1..Len(s) : s[k] \notin TrimSet}
    IN  IF keep = {} THEN <<>>
        ELSE SubSeq(s, CHOOSE a \in keep : \A b \in keep : a <= b,
                       CHOOSE a \in keep : \A b \in keep : a >= b)

\* parseCSVLine, inQuotes when the loop reaches position k: every quote before
\* k has toggled it
InQuotes(line, k) == Cardinality({j \in 1..(k - 1) : line[j] = "\""}) % 2 = 1

\* parseCSVLine, the positions where the loop ends a field: the commas outside quotes
FieldEnds(line) == {k \in 1..Len(line) : line[k] = "," /\ ~InQuotes(line, k)}

\* parseCSVLine, the i-th field end, the line's bounds standing for the 0-th and the last
FieldEnd(line, i) ==
    IF i = 0 THEN 0
    ELSE IF i > Cardinality(FieldEnds(line)) THEN Len(line) + 1
    ELSE CHOOSE p \in FieldEnds(line) : Cardinality({q \in FieldEnds(line) : q < p}) = i - 1

\* parseCSVLine: the fields between the commas outside quotes, the quotes
\* themselves dropped, each field trimmed
parseCSVLine(line) ==
    [i \in 1..(Cardinality(FieldEnds(line)) + 1) |->
        Trim(SelectSeq(SubSeq(line, FieldEnd(line, i - 1) + 1, FieldEnd(line, i) - 1),
                       LAMBDA c : c # "\""))]

\* a faulty variant of validateCSVHeaders: the last required column is not looked for
validateCSVHeadersThree(headerLine) ==
    LET headerFields == parseCSVLine(headerLine)
        n        == Len(headerFields)
        names    == {ToLower(headerFields[k]) : k \in 1..n}
        colMap   == [h \in names |->
                       CHOOSE k \in 1..n :
                         /\ ToLower(headerFields[k]) = h
                         /\ \A j \in (k + 1)..n : ToLower(headerFields[j]) # h]
        missing  == {k \in 1..(Len(requiredColumns) - 1) : requiredColumns[k] \notin names}
    IN  IF missing = {}
        THEN [ok |-> TRUE, columnMap |-> colMap, column |-> <<>>]
        ELSE [ok |-> FALSE, columnMap |-> <<>>,
              column |-> requiredColumns[CHOOSE a \in missing : \A b \in missing : a <= b]]

\* validateCSVHeaders: the map from lower-cased header to its (last) position,
\* positions counted from 1; the first missing required column otherwise
validateCSVHeaders(headerLine) ==
    LET headerFields == parseCSVLine(headerLine)
        n        == Len(headerFields)
        names    == {ToLower(headerFields[k]) : k \in 1..n}
        colMap   == [h \in names |->
                       CHOOSE k \in 1..n :
                         /\ ToLower(headerFields[k]) = h
                         /\ \A j \in (k + 1)..n : ToLower(headerFields[j]) # h]
        missing  == {k \in 1..Len(requiredColumns) : requiredColumns[k] \notin names}
    IN  IF missing = {}
        THEN [ok |-> TRUE, columnMap |-> colMap, column |-> <<>>]
        ELSE [ok |-> FALSE, columnMap |-> <<>>,
              column |-> requiredColumns[CHOOSE a \in missing : \A b \in missing : a <= b]]

\* the body of the loop of processCSVDataLines for one line: the line gives no
\* product (it is skipped) or one; panic = TRUE when the row has no field at the
\* position of a required column (index out of range)
processRow(line, colMap, now) ==
    LET fields == parseCSVLine(line)
        idPos  == colMap[W_id]
        id     == ParseUint(fields[idPos])
        others == {colMap[W_product_name], colMap[W_drug_generic], colMap[W_company]}
    IN  IF line = <<>> THEN [panic |-> FALSE, products |-> <<>>]
        ELSE IF Len(fields) < Len(requiredColumns) THEN [panic |-> FALSE, products |-> <<>>]
        ELSE IF idPos > Len(fields) THEN [panic |-> TRUE, products |-> <<>>]
        ELSE IF ~id.ok THEN [panic |-> FALSE, products |-> <<>>]
        ELSE IF \E c \in others : c > Len(fields) THEN [panic |-> TRUE, products |-> <<>>]
        ELSE [panic |-> FALSE,
              products |-> <<Product(id.val, fields[colMap[W_product_name]],
                                     fields[colMap[W_drug_generic]],
                                     fields[colMap[W_company]], 0, now)>>]

\* processCSVDataLines on the lines lo..hi, in order: the products of the rows,
\* or the panic of the first row that panics.  The range is halved to keep the
\* evaluation shallow.
RECURSIVE processCSVDataLines(_, _, _, _, _)
processCSVDataLines(ls, colMap, now, lo, hi) ==
    IF lo > hi THEN [panic |-> FALSE, products |-> <<>>]
    ELSE IF lo = hi THEN processRow(ls[lo], colMap, now)
    ELSE LET mid   == (lo + hi) \div 2
             left  == processCSVDataLines(ls, colMap, now, lo, mid)
             right == processCSVDataLines(ls, colMap, now, mid + 1, hi)
         IN  IF left.panic THEN left
             ELSE IF right.panic THEN right
             ELSE [panic |-> FALSE, products |-> left.products \o right.products]

\* a faulty variant of BulkEntry: the action line names no document identifier
BulkEntryNoId(indexName, product) ==
    [index |-> indexName, id |-> <<>>, source |-> product]

\* the action line and document line the bulk loop writes for one product
BulkEntry(indexName, product) ==
    [index |-> indexName, id |-> FormatUint(product.ID), source |-> product]

\* the number of products consumed when the loop, having consumed i, next sends
NextSend(i, n) ==
    IF ((i \div batchSize) + 1) * batchSize < n THEN ((i \div batchSize) + 1) * batchSize ELSE n

\* the documents of an index after the engine has indexed the entries of a bulk
\* request in order: for each identifier the last entry stands; a document
\* already there keeps its place, new documents follow in the order their
\* identifiers first appear
BulkIndexed(docs, entries) ==
    LET n        == Len(entries)
        last(id) == entries[CHOOSE k \in 1..n :
                              /\ entries[k].id = id
                              /\ \A j \in (k + 1)..n : entries[j].id # id]
        known    == {docs[k].id : k \in 1..Len(docs)}
        written  == {entries[k].id : k \in 1..n}
        firsts   == SelectSeq([k \in 1..n |-> k],
                              LAMBDA k : /\ entries[k].id \notin known
                                         /\ \A j \in 1..(k - 1) : entries[j].id # entries[k].id)
    IN  [k \in 1..Len(docs) |->
            IF docs[k].id \in written
            THEN [id |-> docs[k].id, source |-> last(docs[k].id).source]
            ELSE docs[k]]
        \o [i \in 1..Len(firsts) |->
              [id |-> entries[firsts[i]].id, source |-> last(entries[firsts[i]].id).source]]

\* the engine's indices after a bulk request, whose entries all name one index
UpsertAll(idxs, entries) ==
    IF entries = <<>> THEN idxs
    ELSE [idxs EXCEPT ![entries[1].index] =
             IndexOf(BulkIndexed(idxs[entries[1].index].docs, entries))]

\* createIndexIfNotExists; probe and create are how the engine behaves on the
\* two calls.  Gives the error, the calls made and the indices afterwards.
createIndexIfNotExists(idxs, indexName, probe, create) ==
    LET status     == IF probe = "transport" THEN 0
                      ELSE IF probe = "status_500" THEN 500
                      ELSE IF idxs[indexName].exists THEN 200 ELSE 404
        created    == IF create # "none" THEN create
                      ELSE IF idxs[indexName].exists THEN "status_error" ELSE "ok"
        existsCall == [op |-> "exists", index |-> indexName, status |-> status]
        createCall == [op |-> "create", index |-> indexName, outcome |-> created]
    IN  IF probe = "transport"
        THEN [err |-> Error("failed to create index"), calls |-> <<existsCall>>,
              indices |-> idxs]
        ELSE IF status = 200
        THEN [err |-> NilError, calls |-> <<existsCall>>, indices |-> idxs]
        ELSE IF create # "none" \/ idxs[indexName].exists
        THEN [err |-> Error("failed to create index"),
              calls |-> <<existsCall, createCall>>, indices |-> idxs]
        ELSE [err |-> NilError, calls |-> <<existsCall, createCall>>,
              indices |-> [idxs EXCEPT ![indexName] = IndexOf(<<>>)]]

----------------------------------------------------------------------------
(* Inputs of the model *)

U_sheet ==
    <<"h", "t", "t", "p", "s", ":", "/", "/", "d", "o", "c", "s", ".", "g", "o", "o", "g",
      "l", "e", ".", "c", "o", "m", "/", "s", "p", "r", "e", "a", "d", "s", "h", "e", "e",
      "t", "s", "/", "d", "/", "a", "-", "1", "/", "e", "d", "i", "t">>
U_noid ==
    <<"d", "o", "c", "s", ".", "g", "o", "o", "g", "l", "e", ".", "c", "o", "m", "/", "s",
      "p", "r", "e", "a", "d", "s", "h", "e", "e", "t", "s", "/", "x">>
U_local == <<"a", ".", "x", "l", "s", "x">>

\* values of --import-excel; the empty string is the flag's default
ImportPaths == {<<>>, U_sheet, U_noid, U_local}

\* the .env file: unreadable, or readable with a value of ELASTICSEARCH_INDEX
\* ("" when the key is not set)
Environments ==
    [readable : BOOLEAN, index : {"", "products", "items"}]

\* the parts joined by sep
RECURSIVE Join(_, _)
Join(parts, sep) ==
    IF parts = <<>> THEN <<>>
    ELSE IF Len(parts) = 1 THEN parts[1]
    ELSE Join(SubSeq(parts, 1, Len(parts) \div 2), sep) \o sep
            \o Join(SubSeq(parts, Len(parts) \div 2 + 1, Len(parts)), sep)

Row(fields) == Join(fields, <<",">>)
Csv(rows) == Join(rows, <<"\n">>)

H_ok         == Row(requiredColumns)
H_upper      == Row(<<<<"I", "D">>, <<"P", "r", "o", "d", "u", "c", "t", "_", "N", "a", "m", "e">>,
                      W_drug_generic, <<"C", "O", "M", "P", "A", "N", "Y">>>>)
H_no_company == Row(<<W_id, W_product_name, W_drug_generic>>)
H_no_id      == Row(<<W_company, W_product_name, W_drug_generic>>)
H_no_name    == Row(<<W_id, <<"n", "a", "m", "e">>, W_drug_generic, W_company>>)
H_no_generic == Row(<<W_id, W_product_name, W_company, <<"x">>, W_ASA>>)
H_only_id    == Row(<<<<"I", "d">>, <<"x">>>>)
H_reordered  == Row(<<<<"x">>, W_company, W_drug_generic, W_product_name, W_id>>)
R_42         == Row(<<<<"4", "2">>, W_Aspirin, W_ASA, W_Acme>>)
R_42b        == Row(<<<<"4", "2">>, W_Ibu, W_ASA, W_Acme>>)
R_9          == Row(<<<<"9">>, W_Aspirin, W_Ibu, W_Acme>>)
R_7          == Row(<<<<"7">>, <<"\"">> \o W_Ibu \o <<",", "x", "\"">>, W_Ibu, W_Acme>>)
R_big        == Row(<<FormatUint(MaxUint), W_Ibu, W_ASA, W_Acme>>)
R_bad_id     == Row(<<<<"x">>, W_Ibu, W_Ibu, W_Acme>>)
R_short      == Row(<<<<"1">>, <<"2">>>>)

\* what the download of the export can give (besides a failure)
Datasets ==
    { Csv(<<H_ok, R_42, <<>>>>),
      Csv(<<H_upper \o <<"\r">>, R_42 \o <<"\r">>, R_7 \o <<"\r">>, R_9 \o <<"\r">>>>),
      Csv(<<H_ok, R_bad_id, R_short, <<>>, R_42b>>),
      Csv(<<H_ok, R_42, R_9, R_42b>>),
      Csv(<<H_ok, R_big, R_9>>),
      Csv(<<H_no_company, R_42>>),
      Csv(<<H_no_id, R_42>>),
      Csv(<<H_no_name, R_42>>),
      Csv(<<H_no_generic, R_42>>),
      Csv(<<H_only_id, R_42>>),
      Csv(<<H_reordered, R_42>>),
      Csv(<<H_ok, <<>>>>),
      H_ok,
      H_no_company,
      <<>> }

LimitInputs  == {<<>>, <<"0">>, <<"1">>, <<"2">>, <<"-", "1">>, <<"a", "b", "c">>,
                 <<"1", ".", "5">>}
OffsetInputs == {<<>>, <<"1">>, <<"3">>, <<"1", "2", "7">>, <<"x">>, <<"9", "9", "9", "9">>}
Keywords     == {<<>>, W_Aspir, W_zz}

\* exports large enough for several bulk requests: a header and n rows with the
\* identifiers 1..n
BulkSizes == {1, 100, 101, 200, 201, 250}
GenRow(k) == Row(<<FormatUint(k), W_Ibu, W_ASA, W_Acme>>)
GenCsv(n) == Csv(<<H_ok>> \o [k \in 1..n |-> GenRow(k)])
BigDatasets == {GenCsv(n) : n \in BulkSizes}

ProbeFaults  == {"none", "transport", "status_500"}
CreateFaults == {"none", "transport", "status_error"}
BulkOutcomes == {"ok", "transport", "status_error"}

----------------------------------------------------------------------------
(* The process: cmd/server/main.go, internal/app *)

NoConfig == [Index |-> ""]

\* config.Load on a readable .env file
Load(e) == [Index |-> IF e.index # "" THEN e.index ELSE "documents"]

Init ==
    /\ pc = "stopped"
    /\ runs = 0
    /\ env \in Environments
    /\ importPath = <<>>
    /\ cfg = NoConfig
    /\ exitCode = -1
    /\ appCreated = FALSE
    /\ listening = FALSE
    /\ importErr = NoError
    /\ startErr = NoError
    /\ indices = [n \in IndexNames |-> NoIndex]
    /\ esLog = <<>>
    /\ lines = <<>>
    /\ columnMap = <<>>
    /\ products = <<>>
    /\ bulkBody = <<>>
    /\ idx = 0
    /\ request = NoRequest
    /\ response = NoResponse
    /\ svcCalls = 0

importVars == <<lines, columnMap, products, bulkBody, idx>>
httpVars == <<request, response, svcCalls>>
mainVars == <<runs, env, importPath, cfg, appCreated, listening, startErr>>

\* main: the flags are parsed and the configuration loaded
Main ==
    /\ pc \in {"stopped", "exited"}
    /\ runs < MaxRuns
    /\ runs' = runs + 1
    /\ importPath' \in ImportPaths
    /\ IF env.readable
       THEN /\ cfg' = Load(env)
            /\ exitCode' = -1
            /\ pc' = IF importPath' # <<>> THEN "import_client" ELSE "server_new"
       ELSE /\ cfg' = NoConfig
            /\ exitCode' = 1
            /\ pc' = "exited"
    /\ appCreated' = FALSE
    /\ listening' = FALSE
    /\ importErr' = NoError
    /\ startErr' = NoError
    /\ esLog' = <<>>
    /\ lines' = <<>>
    /\ columnMap' = <<>>
    /\ products' = <<>>
    /\ bulkBody' = <<>>
    /\ idx' = 0
    /\ request' = NoRequest
    /\ response' = NoResponse
    /\ svcCalls' = 0
    /\ UNCHANGED <<env, indices>>

\* an import step that ends the run with error e
ImportFails(e) ==
    /\ importErr' = e
    /\ pc' = "import_return"

\* app.ImportExcel: the temporary client is created and probes the engine
ImportExcel ==
    /\ pc = "import_client"
    /\ esLog' = Append(esLog, [op |-> "info", index |-> ""])
    /\ \E ok \in BOOLEAN :
         IF ok THEN pc' = "import_source" /\ UNCHANGED importErr
         ELSE ImportFails(Error("client"))
    /\ UNCHANGED <<mainVars, exitCode, indices, importVars, httpVars>>

\* ImportFromExcel and the first step of importFromGoogleSheets
ImportFromExcel ==
    /\ pc = "import_source"
    /\ IF ~Contains(importPath, W_sheets)
       THEN ImportFails(Error("local file import not implemented"))
       ELSE IF ~extractSpreadsheetID(importPath).ok
       THEN ImportFails(Error("could not extract spreadsheet ID from URL"))
       ELSE pc' = "import_download" /\ UNCHANGED importErr
    /\ UNCHANGED <<mainVars, exitCode, indices, esLog, importVars, httpVars>>

\* the download of the export and the split into lines
ImportDownload(datasets) ==
    /\ pc = "import_download"
    /\ \/ /\ ImportFails(Error("failed to download spreadsheet"))
          /\ UNCHANGED lines
       \/ \E csvData \in datasets :
            /\ lines' = SplitLines(csvData)
            /\ IF Len(lines') < 2
               THEN ImportFails(Error("spreadsheet contains no data"))
               ELSE pc' = "import_headers" /\ UNCHANGED importErr
    /\ UNCHANGED <<mainVars, exitCode, indices, esLog, columnMap, products, bulkBody, idx,
                   httpVars>>

\* the header line is validated
ImportValidateHeaders ==
    /\ pc = "import_headers"
    /\ LET v == validateCSVHeaders(lines[1])
       IN  IF v.ok
           THEN columnMap' = v.columnMap /\ pc' = "import_index" /\ UNCHANGED importErr
           ELSE /\ ImportFails([kind |-> "required column not found", detail |-> v.column])
                /\ UNCHANGED columnMap
    /\ UNCHANGED <<mainVars, exitCode, indices, esLog, lines, products, bulkBody, idx,
                   httpVars>>

\* the index is created if it does not exist
ImportEnsureIndex ==
    /\ pc = "import_index"
    /\ \E probe \in ProbeFaults, create \in CreateFaults :
         LET r == createIndexIfNotExists(indices, cfg.Index, probe, create)
         IN  /\ esLog' = esLog \o r.calls
             /\ indices' = r.indices
             /\ IF r.err = NilError
                THEN pc' = "import_rows" /\ UNCHANGED importErr
                ELSE ImportFails(r.err)
    /\ UNCHANGED <<mainVars, exitCode, importVars, httpVars>>

\* the data lines are parsed; an index out of range ends the process
ImportProcessLines ==
    /\ pc = "import_rows"
    /\ LET r == processCSVDataLines(lines, columnMap, runs, 2, Len(lines))
       IN  IF r.panic
           THEN /\ importErr' = Error("panic")
                /\ pc' = "exited"
                /\ exitCode' = 2
                /\ UNCHANGED products
           ELSE /\ products' = r.products
                /\ pc' = "import_bulk"
                /\ UNCHANGED <<importErr, exitCode>>
    /\ UNCHANGED <<mainVars, indices, esLog, lines, columnMap, bulkBody, idx, httpVars>>

\* a faulty variant of ImportBulk: the loop is left after a bulk request that failed
ImportBulkStopOnFailure ==
    /\ pc = "import_bulk"
    /\ idx < Len(products)
    /\ LET upTo == NextSend(idx, Len(products))
           body == bulkBody \o [k \in 1..(upTo - idx) |->
                                   BulkEntry(cfg.Index, products[idx + k])]
       IN  \E outcome \in BulkOutcomes :
                /\ idx' = IF outcome = "ok" THEN upTo ELSE Len(products)
                /\ esLog' = Append(esLog, [op |-> "bulk", index |-> cfg.Index,
                                           docs |-> body, outcome |-> outcome])
                /\ indices' = IF outcome = "ok" THEN UpsertAll(indices, body) ELSE indices
                /\ bulkBody' = <<>>
    /\ UNCHANGED <<mainVars, pc, exitCode, importErr, lines, columnMap, products, httpVars>>

\* importProductsBulk: the loop runs up to and including its next bulk request
ImportBulk ==
    /\ pc = "import_bulk"
    /\ idx < Len(products)
    /\ LET upTo == NextSend(idx, Len(products))
           body == bulkBody \o [k \in 1..(upTo - idx) |->
                                   BulkEntry(cfg.Index, products[idx + k])]
       IN  /\ idx' = upTo
           /\ \E outcome \in BulkOutcomes :
                /\ esLog' = Append(esLog, [op |-> "bulk", index |-> cfg.Index,
                                           docs |-> body, outcome |-> outcome])
                /\ indices' = IF outcome = "ok" THEN UpsertAll(indices, body) ELSE indices
                /\ bulkBody' = IF outcome = "transport" THEN body ELSE <<>>
    /\ UNCHANGED <<mainVars, pc, exitCode, importErr, lines, columnMap, products, httpVars>>

\* importProductsBulk returns nil: nothing to import, or the loop is over
ImportBulkDone ==
    /\ pc = "import_bulk"
    /\ idx = Len(products)
    /\ importErr' = NilError
    /\ pc' = "import_return"
    /\ UNCHANGED <<mainVars, exitCode, indices, esLog, importVars, httpVars>>

\* a faulty variant of ImportReturn: the error of the import is dropped
ImportReturnSuccess ==
    /\ pc = "import_return"
    /\ exitCode' = 0
    /\ pc' = "exited"
    /\ UNCHANGED <<mainVars, importErr, indices, esLog, importVars, httpVars>>

\* main after executeImport: a fatal log on an error, a plain return otherwise
ImportReturn ==
    /\ pc = "import_return"
    /\ exitCode' = IF importErr = NilError THEN 0 ELSE 1
    /\ pc' = "exited"
    /\ UNCHANGED <<mainVars, importErr, indices, esLog, importVars, httpVars>>

\* app.New: the engine is probed, the fiber app and its routes are set up;
\* startServer hands an error of New to main
AppNew ==
    /\ pc = "server_new"
    /\ esLog' = Append(esLog, [op |-> "info", index |-> ""])
    /\ \E ok \in BOOLEAN :
         IF ok
         THEN appCreated' = TRUE /\ pc' = "server_start" /\ UNCHANGED exitCode
         ELSE appCreated' = FALSE /\ pc' = "exited" /\ exitCode' = 1
    /\ UNCHANGED <<runs, env, importPath, cfg, listening, startErr, importErr, indices,
                   importVars, httpVars>>

\* a faulty variant of AppStart: Start returns once the listener is started
AppStartNoWait ==
    /\ pc = "server_start"
    /\ listening' = TRUE
    /\ startErr' = NilError
    /\ pc' = "server_return"
    /\ UNCHANGED <<runs, env, importPath, cfg, appCreated, exitCode, importErr, indices,
                   esLog, importVars, httpVars>>

\* Application.Start up to the receive on shutdownCh: the listener is started
\* in a goroutine, whose fatal log ends the process when Listen fails
AppStart ==
    /\ pc = "server_start"
    /\ \E ok \in BOOLEAN :
         IF ok
         THEN listening' = TRUE /\ pc' = "serving" /\ UNCHANGED exitCode
         ELSE listening' = FALSE /\ pc' = "exited" /\ exitCode' = 1
    /\ UNCHANGED <<runs, env, importPath, cfg, appCreated, startErr, importErr, indices,
                   esLog, importVars, httpVars>>

\* GET /product
GetProductsRequest ==
    /\ pc = "serving"
    /\ request = NoRequest
    /\ \E l \in LimitInputs, o \in OffsetInputs, k \in Keywords, fault \in SearchFaults :
         LET req == [path |-> "/product", limit |-> l, offset |-> o, keyword |-> k]
             h   == HandlerGetProducts(indices, req, fault)
         IN  /\ request' = req
             /\ response' = h.response
             /\ esLog' = h.calls
             /\ svcCalls' = h.svc
    /\ UNCHANGED <<mainVars, pc, exitCode, importErr, indices, importVars>>

\* GET /health
HealthRequest ==
    /\ pc = "serving"
    /\ request = NoRequest
    /\ request' = [NoRequest EXCEPT !.path = "/health"]
    /\ response' = HandlerHealth.response
    /\ esLog' = HandlerHealth.calls
    /\ svcCalls' = HandlerHealth.svc
    /\ UNCHANGED <<mainVars, pc, exitCode, importErr, indices, importVars>>

\* the response has been written to the connection; a request in flight when
\* the shutdown begins is still completed
ResponseSent ==
    /\ pc \in {"serving", "shutting_down"}
    /\ request # NoRequest
    /\ request' = NoRequest
    /\ response' = NoResponse
    /\ esLog' = <<>>
    /\ svcCalls' = 0
    /\ UNCHANGED <<mainVars, pc, exitCode, importErr, indices, importVars>>

\* waitForShutdown: a termination signal is received from shutdownCh and
\* ShutdownWithContext is called, which closes the listener first
Signal ==
    /\ pc = "serving"
    /\ listening' = FALSE
    /\ pc' = "shutting_down"
    /\ UNCHANGED <<runs, env, importPath, cfg, appCreated, startErr, exitCode, importErr,
                   indices, esLog, importVars, httpVars>>

\* a faulty variant of Shutdown: the error of ShutdownWithContext is dropped
ShutdownDropsError ==
    /\ pc = "shutting_down"
    /\ startErr' = NilError
    /\ pc' = "server_return"
    /\ UNCHANGED <<runs, env, importPath, cfg, appCreated, listening, exitCode, importErr,
                   indices, esLog, importVars, httpVars>>

\* waitForShutdown: ShutdownWithContext returns, with nil once no request is
\* in flight, with the error of the context when the timeout of 10 s passes
\* while one still is; Start returns what it returned
Shutdown ==
    /\ pc = "shutting_down"
    /\ startErr' = IF request = NoRequest THEN NilError
                   ELSE Error("context deadline exceeded")
    /\ pc' = "server_return"
    /\ UNCHANGED <<runs, env, importPath, cfg, appCreated, listening, exitCode, importErr,
                   indices, esLog, importVars, httpVars>>

\* main after startServer: a fatal log on an error, a plain return otherwise
ServerReturn ==
    /\ pc = "server_return"
    /\ exitCode' = IF startErr = NilError THEN 0 ELSE 1
    /\ pc' = "exited"
    /\ UNCHANGED <<mainVars, importErr, indices, esLog, importVars, httpVars>>

Next ==
    \/ Main
    \/ ImportExcel
    \/ ImportFromExcel
    \/ ImportDownload(Datasets)
    \/ ImportValidateHeaders
    \/ ImportEnsureIndex
    \/ ImportProcessLines
    \/ ImportBulk
    \/ ImportBulkDone
    \/ ImportReturn
    \/ AppNew
    \/ AppStart
    \/ GetProductsRequest
    \/ HealthRequest
    \/ ResponseSent
    \/ Signal
    \/ Shutdown
    \/ ServerReturn

Spec == Init /\ [][Next]_vars

\* ShutdownWithContext returns: at the latest when its timeout passes
SpecServer == Spec /\ WF_vars(Shutdown)

----------------------------------------------------------------------------
(* An import run on a large export, from the download on *)

InitBulk ==
    /\ pc = "import_download"
    /\ runs = 1
    /\ env \in {e \in Environments : e.readable}
    /\ importPath = U_sheet
    /\ cfg = Load(env)
    /\ exitCode = -1
    /\ appCreated = FALSE
    /\ listening = FALSE
    /\ importErr = NoError
    /\ startErr = NoError
    /\ indices = [n \in IndexNames |-> NoIndex]
    /\ esLog = <<[op |-> "info", index |-> ""]>>
    /\ lines = <<>>
    /\ columnMap = <<>>
    /\ products = <<>>
    /\ bulkBody = <<>>
    /\ idx = 0
    /\ request = NoRequest
    /\ response = NoResponse
    /\ svcCalls = 0

NextBulk ==
    \/ ImportDownload(BigDatasets)
    \/ ImportValidateHeaders
    \/ ImportEnsureIndex
    \/ ImportProcessLines
    \/ ImportBulk
    \/ ImportBulkDone
    \/ ImportReturn

SpecBulk == InitBulk /\ [][NextBulk]_vars

----------------------------------------------------------------------------
(* Properties *)

\* the request handled last is a GET /product that was answered
Served == request.path = "/product" /\ response # NoResponse

\* the least n with n * b >= a, for a >= 0 and b > 0
CeilOf(a, b) == CHOOSE n \in 0..a : n * b >= a /\ \A m \in 0..(n - 1) : m * b < a

\* the integer an int of the width of the model holds for the mathematical n
AsInt(n) == IF n > MaxInt THEN n - 2 * (MaxInt + 1) ELSE n

\* the texts among the inputs that strconv.Atoi rejects
NotIntegers ==
    {<<"a", "b", "c">>, <<"1", ".", "5">>, <<"x">>, <<"9", "9", "9", "9">>}

\* the integer each accepted text among the inputs stands for
IntegerOf(s) ==
    CASE s = <<"0">> -> 0
      [] s = <<"1">> -> 1
      [] s = <<"2">> -> 2
      [] s = <<"3">> -> 3
      [] s = <<"-", "1">> -> -1
      [] s = <<"1", "0">> -> 10
      [] s = <<"1", "2", "7">> -> 127

\* C1 as stated: every successful GetProducts with limit > 0 and offset >= 0 has
\* current_page = offset div limit + 1 and total_pages = ceil(total_count / limit),
\* a total count of 0 included.
C1_AsStated ==
    (Served /\ response.status = 200
        /\ response.pagination.limit > 0 /\ response.pagination.offset >= 0)
    => /\ response.pagination.current_page =
              (response.pagination.offset \div response.pagination.limit) + 1
       /\ response.pagination.total_pages =
              CeilOf(response.pagination.total, response.pagination.limit)

\* C1 amended: every successful GetProducts with limit > 0 and offset >= 0 has
\* current_page = offset div limit + 1 in int arithmetic (the sum wraps when it
\* exceeds the largest int), and total_pages = ceil(total_count / limit) when
\* total_count > 0 and total_pages = 1 when total_count = 0.
C1_Pages ==
    (Served /\ response.status = 200
        /\ response.pagination.limit > 0 /\ response.pagination.offset >= 0)
    => /\ response.pagination.current_page =
              AsInt((response.pagination.offset \div response.pagination.limit) + 1)
       /\ response.pagination.total_pages =
              IF response.pagination.total = 0 THEN 1
              ELSE CeilOf(response.pagination.total, response.pagination.limit)

\* three products found, two to a page: two pages, the offset 3 is on the second
C1_Witness ==
    /\ Served /\ response.status = 200
    /\ response.pagination.total = 3 /\ response.pagination.limit = 2
    /\ response.pagination.offset = 3
    /\ response.pagination.current_page = 2 /\ response.pagination.total_pages = 2

\* C2: a GetProducts with limit = 0 whose search succeeded is successful (no
\* division by zero ends it) and has current_page = 1 and total_pages = 1, for
\* any offset and any total count.
C2_ZeroLimit ==
    (Served /\ request.limit = <<"0">> /\ Len(esLog) = 1 /\ esLog[1].outcome = "ok")
    => /\ response.status = 200
       /\ response.pagination.limit = 0
       /\ response.pagination.current_page = 1
       /\ response.pagination.total_pages = 1

\* limit = 0 at offset 3 with three products found
C2_Witness ==
    /\ Served /\ request.limit = <<"0">> /\ response.status = 200
    /\ response.pagination.offset = 3 /\ response.pagination.total = 3
    /\ response.pagination.current_page = 1 /\ response.pagination.total_pages = 1

\* C3: a GET /product whose limit or offset is not an integer is answered 400
\* with an is_success = false error body, and neither the product service nor
\* the engine has been called.
C3_BadParameter ==
    (Served /\ (request.limit \in NotIntegers \/ request.offset \in NotIntegers))
    => /\ response.status = 400
       /\ ~response.is_success
       /\ response.body = "error"
       /\ svcCalls = 0
       /\ esLog = <<>>

\* a valid limit with an offset that is not an integer
C3_Witness ==
    /\ Served /\ request.limit = <<"2">> /\ request.offset = <<"x">>
    /\ response.status = 400 /\ svcCalls = 0 /\ esLog = <<>>

\* C4: a GET /product whose limit and offset are integers sends exactly one
\* search request, with from = offset and size = limit unchanged, an absent
\* limit being 10 and an absent offset 0, with and without a keyword.
C4_FromSize ==
    (Served /\ request.limit \notin NotIntegers /\ request.offset \notin NotIntegers)
    => /\ Len(esLog) = 1
       /\ esLog[1].op = "search"
       /\ svcCalls = 1
       /\ esLog[1].body.size = IF request.limit = <<>> THEN 10 ELSE IntegerOf(request.limit)
       /\ esLog[1].body.from = IF request.offset = <<>> THEN 0 ELSE IntegerOf(request.offset)
       /\ (request.keyword = <<>>) = (esLog[1].body.query.kind = "none")

\* a keyword search with a negative limit: the size is sent as it is
C4_Witness ==
    /\ Served /\ request.keyword = W_Aspir
    /\ request.limit = <<"-", "1">> /\ request.offset = <<"3">>
    /\ Len(esLog) = 1 /\ esLog[1].body.size = -1 /\ esLog[1].body.from = 3
    /\ esLog[1].body.query.kind = "bool_should"

\* C5: GET /health is answered 200 with the body {"status":"ok"} whatever the
\* state of the engine, and no call to the engine is made for it.
C5_Health ==
    (request.path = "/health")
    => /\ response.status = 200
       /\ response.body = "{\"status\":\"ok\"}"
       /\ esLog = <<>>
       /\ svcCalls = 0

\* the health request answered while the engine has no index at all
C5_Witness ==
    /\ request.path = "/health" /\ response.status = 200
    /\ \A n \in IndexNames : ~indices[n].exists

\* the index the configuration names holds the imported row 42, "Aspirin"
Imported42 ==
    /\ cfg.Index \in IndexNames
    /\ indices[cfg.Index].exists
    /\ \E k \in 1..Len(indices[cfg.Index].docs) :
         /\ indices[cfg.Index].docs[k].id = <<"4", "2">>
         /\ indices[cfg.Index].docs[k].source.ProductName = W_Aspirin

\* C6: once an import has written the row with id 42 and product_name "Aspirin",
\* a GET /product with keyword "Aspir" that the engine answers without a fault
\* returns that product, with id 42, under every configuration.
C6_RoundTrip ==
    (Served /\ Imported42 /\ request.keyword = W_Aspir
        /\ request.limit = <<>> /\ request.offset = <<>>
        /\ Len(esLog) = 1 /\ esLog[1].fault = "none")
    => /\ response.status = 200
       /\ \E k \in 1..Len(response.data) :
            /\ response.data[k].ID = 42
            /\ response.data[k].ProductName = W_Aspirin

\* the header lines among the inputs that lack a required column, each with the
\* first required column it lacks
LackingHeaders == {H_no_company, H_no_id, H_no_name, H_no_generic, H_only_id}

MissingIn(header) ==
    CASE header = H_no_company -> W_company
      [] header = H_no_id -> W_id
      [] header = H_no_name -> W_product_name
      [] header = H_no_generic -> W_drug_generic
      [] header = H_only_id -> W_product_name

\* the engine calls of the import pipeline proper
ImportOps == {"exists", "create", "bulk"}

\* C7 as stated: when the header line lacks a required column (names compared
\* without regard to case), the run ends with the error that names the missing
\* column, and no existence probe, index creation or bulk write has been issued.
C7_AsStated ==
    (lines # <<>> /\ lines[1] \in LackingHeaders /\ pc \in {"import_return", "exited"})
    => /\ importErr = [kind |-> "required column not found",
                       detail |-> MissingIn(lines[1])]
       /\ \A k \in 1..Len(esLog) : esLog[k].op \notin ImportOps

\* C7 amended: when the export has at least two lines and its header line lacks
\* a required column (names compared without regard to case), the run ends with
\* the error that names the first missing column in the order id, product_name,
\* drug_generic, company; an export of one line ends with the no-data error
\* whatever its header; in both cases no existence probe, index creation or bulk
\* write is issued in the run.  A header that differs from the required names
\* only in case is not refused.
C7_MissingColumn ==
    /\ (Len(lines) >= 2 /\ lines[1] \in LackingHeaders)
       => /\ \A k \in 1..Len(esLog) : esLog[k].op \notin ImportOps
          /\ pc \notin {"import_index", "import_rows", "import_bulk"}
          /\ (pc \in {"import_return", "exited"})
             => /\ importErr = [kind |-> "required column not found",
                                detail |-> MissingIn(lines[1])]
                /\ (pc = "exited" => exitCode = 1)
    /\ (Len(lines) = 1)
       => /\ \A k \in 1..Len(esLog) : esLog[k].op \notin ImportOps
          /\ pc \in {"import_return", "exited"}
          /\ importErr = Error("spreadsheet contains no data")
    /\ (Len(lines) >= 2 /\ lines[1] = H_upper \o <<"\r">>)
       => importErr.kind # "required column not found"

\* a run that ended on the missing company column
C7_Witness ==
    /\ pc = "exited" /\ Len(lines) >= 2 /\ lines[1] = H_no_company
    /\ importErr = [kind |-> "required column not found", detail |-> W_company]
    /\ esLog = <<[op |-> "info", index |-> ""]>>

\* the bulk requests of the run, in the order they were sent
BulkCalls == SelectSeq(esLog, LAMBDA c : c.op = "bulk")

\* the number of batches of n products
BatchesOf(n) == CHOOSE b \in 0..n : b * batchSize >= n /\ \A m \in 0..(b - 1) : m * batchSize < n

\* C8: whatever the outcome of each bulk write, when the bulk loop of a run is
\* over one bulk request has been sent for every batch, and the request of the
\* k-th batch carries the products of that batch last, in row order.
C8_AllBatches ==
    (pc = "import_return" /\ importErr = NilError)
    => /\ Len(BulkCalls) = BatchesOf(Len(products))
       /\ \A k \in 1..Len(BulkCalls) :
            LET lo == (k - 1) * batchSize
                hi == IF k * batchSize < Len(products) THEN k * batchSize ELSE Len(products)
                d  == BulkCalls[k].docs
            IN  /\ Len(d) >= hi - lo
                /\ \A j \in 1..(hi - lo) :
                     /\ d[Len(d) - (hi - lo) + j].source = products[lo + j]
                     /\ d[Len(d) - (hi - lo) + j].index = cfg.Index

\* three batches, the first refused at the transport, the second by the engine
C8_Witness ==
    /\ pc = "import_return" /\ importErr = NilError
    /\ Len(products) = 250 /\ Len(BulkCalls) = 3
    /\ BulkCalls[1].outcome = "transport"
    /\ BulkCalls[2].outcome = "status_error"
    /\ BulkCalls[3].outcome = "ok"

\* the failures of a search: the transport fails, the engine reports an error
\* status (with an error object, an error string, no error member, or a body
\* that is not JSON), or the body of a success status cannot be decoded
SearchFailures ==
    {"transport", "status_object", "status_string", "status_absent",
     "status_undecodable", "ok_undecodable"}

\* C9: every failure of the search (transport failure, error status with any
\* JSON error body, undecodable body) makes FindProducts return an error, without
\* a panic, and GET /product answers 500 with is_success = false.
C9_SearchFailure ==
    (Served /\ Len(esLog) = 1 /\ esLog[1].fault \in SearchFailures)
    => /\ esLog[1].outcome = "err"
       /\ response.status = 500
       /\ ~response.is_success
       /\ response.data = <<>>

\* the process is in the import pipeline
ImportPcs ==
    {"import_client", "import_source", "import_download", "import_headers",
     "import_index", "import_rows", "import_bulk", "import_return"}

\* C10: with a non-empty --import-excel the process runs the import against the
\* configured index (once the configuration is loaded) and exits, the application
\* is never created and the listener never started, and the exit status is 0
\* exactly when the import returned no error; with the flag absent the import is
\* never run.
C10_ImportMode ==
    /\ (importPath # <<>>)
       => /\ ~appCreated /\ ~listening /\ request = NoRequest
          /\ pc \notin {"server_new", "server_start", "serving", "shutting_down",
                     "server_return"}
          /\ \A k \in 1..Len(esLog) :
               esLog[k].op \in ImportOps => esLog[k].index = cfg.Index
          /\ (pc = "exited")
             => /\ (exitCode = 0) = (importErr = NilError)
                /\ exitCode \in {0, 1, 2}
                /\ cfg # NoConfig => importErr # NoError
    /\ (importPath = <<>>)
       => /\ pc \notin ImportPcs
          /\ importErr = NoError
          /\ lines = <<>> /\ products = <<>>
          /\ \A k \in 1..Len(esLog) : esLog[k].op \notin ImportOps

\* an import into the index "items" that ended with exit status 0
C10_Witness ==
    /\ pc = "exited" /\ importPath = U_sheet /\ exitCode = 0 /\ importErr = NilError
    /\ cfg.Index = "items" /\ ~appCreated
    /\ \E k \in 1..Len(esLog) : esLog[k].op = "bulk" /\ esLog[k].index = "items"

\* C11: the search body is the plain listing (from and size, no query, no sort)
\* exactly when the keyword is empty, and the boolean query with the fuzzy match
\* and wildcard clauses on the three text fields and the score / product_name
\* sort exactly when the keyword is not empty.
C11_QueryBranch ==
    (Served /\ Len(esLog) = 1)
    => IF request.keyword = <<>>
       THEN /\ esLog[1].body.query.kind = "none"
            /\ esLog[1].body.query.match = <<>>
            /\ esLog[1].body.query.wildcard = <<>>
            /\ esLog[1].body.query.fields = <<>>
            /\ esLog[1].body.sort = <<>>
       ELSE /\ esLog[1].body.query.kind = "bool_should"
            /\ esLog[1].body.query.match = request.keyword
            /\ esLog[1].body.query.operator = "and"
            /\ esLog[1].body.query.fuzziness = "AUTO"
            /\ esLog[1].body.query.wildcard = <<"*">> \o request.keyword \o <<"*">>
            /\ esLog[1].body.query.fields = <<W_product_name, W_drug_generic, W_company>>
            /\ esLog[1].body.sort = <<"_score desc", "product_name.keyword asc">>

\* a listing without keyword, sent as the plain body
C11_Witness ==
    /\ Served /\ Len(esLog) = 1 /\ request.keyword = <<>>
    /\ esLog[1].body.query.kind = "none" /\ esLog[1].body.sort = <<>>
    /\ response.status = 200 /\ response.pagination.total = 3

\* the search was answered with three hits whose identifiers are not numeric
\* strings: "abc" on a source with id 42, a number on a source with id 9, and
\* "x7" on a hit without source
ForeignAnswer == Served /\ Len(esLog) = 1 /\ esLog[1].fault = "foreign_ids"

IdTextOf(n) ==
    CASE n = 42 -> <<"4", "2">>
      [] n = 9 -> <<"9">>
      [] n = 7 -> <<"7">>
      [] OTHER -> <<"?">>

\* the identifiers of a sequence of documents or bulk entries
IdsOf(ds) == {ds[k].id : k \in 1..Len(ds)}

\* every index holds at most one document per identifier, and the identifier of
\* a document is the decimal text of the id of the product it holds: digits
\* without a leading zero whose value is the id
OnePerId ==
    \A n \in IndexNames :
        /\ \A i, j \in 1..Len(indices[n].docs) :
             indices[n].docs[i].id = indices[n].docs[j].id => i = j
        /\ \A i \in 1..Len(indices[n].docs) :
             LET d == indices[n].docs[i]
             IN  /\ d.id # <<>> /\ (Len(d.id) > 1 => d.id[1] # "0")
                 /\ ParseUint(d.id) = [ok |-> TRUE, val |-> d.source.ID]
                 /\ d.source.ID \in {42, 9, 7} => d.id = IdTextOf(d.source.ID)

\* a step in which a bulk request is accepted: the identifiers of the index are
\* those it had and those of the request (so a request that only names
\* identifiers already there adds none), the document of each identifier of the
\* request is the one the request wrote last, every other document is untouched
LastWins ==
    (Len(esLog') = Len(esLog) + 1 /\ esLog'[Len(esLog')].op = "bulk"
        /\ esLog'[Len(esLog')].outcome = "ok")
    => LET body == esLog'[Len(esLog')].docs
           old  == indices[cfg.Index].docs
           new  == indices'[cfg.Index].docs
       IN  /\ IdsOf(new) = IdsOf(old) \cup IdsOf(body)
           /\ \A i \in 1..Len(body) :
                (\A j \in (i + 1)..Len(body) : body[j].id # body[i].id)
                => \E k \in 1..Len(new) :
                     new[k].id = body[i].id /\ new[k].source = body[i].source
           /\ \A k \in 1..Len(old) :
                old[k].id \notin IdsOf(body) => \E m \in 1..Len(new) : new[m] = old[k]
           /\ \A n \in IndexNames \ {cfg.Index} : indices'[n] = indices[n]

\* C13: the import is an upsert keyed by id: an index never holds two documents
\* with one id, the document of an id is the one written last, and writing ids
\* that are already there (the same dataset again) leaves the set of document
\* identifiers as it was.
C13_Upsert == []OnePerId /\ [][LastWins]_vars

\* the row 42 imported in a first run and again, changed, in a second run: one
\* document 42, holding the row of the second run
C13_Witness ==
    /\ runs = 2 /\ pc = "exited" /\ exitCode = 0 /\ cfg.Index = "items"
    /\ Len(indices["items"].docs) = 1
    /\ indices["items"].docs[1].id = <<"4", "2">>
    /\ indices["items"].docs[1].source.ProductName = W_Ibu
    /\ indices["items"].docs[1].source.CreatedAt = 2

\* the downloaded export has a data row: a line after the header that is not empty
HasDataRow == \E k \in 2..Len(lines) : lines[k] # <<>>

\* C14: unless the downloaded export has a header line and at least one data
\* row, the run ends with the no-data error before header validation, index
\* creation or any write; so does an export of a header line only, with or
\* without a line feed after it.
C14_EmptyDataset ==
    (lines # <<>> /\ ~HasDataRow)
    => /\ pc \in {"import_return", "exited"}
       /\ importErr = Error("spreadsheet contains no data")
       /\ columnMap = <<>>
       /\ \A k \in 1..Len(esLog) : esLog[k].op \notin ImportOps

\* C15: every bulk request of an import run carries at most 100 documents, also
\* when earlier bulk requests of the run failed.
C15_BatchSize ==
    \A k \in 1..Len(esLog) : esLog[k].op = "bulk" => Len(esLog[k].docs) <= batchSize

\* the rows among the inputs that have a field for every required column and an
\* id that is an unsigned integer (with and without a carriage return)
GoodRows ==
    {R_42, R_42b, R_9, R_7,
     R_42 \o <<"\r">>, R_42b \o <<"\r">>, R_9 \o <<"\r">>, R_7 \o <<"\r">>}

\* the ids of the good rows, as products carry them
IdOfRow(line) ==
    CASE line \in {R_42, R_42b, R_42 \o <<"\r">>, R_42b \o <<"\r">>} -> 42
      [] line \in {R_9, R_9 \o <<"\r">>} -> 9
      [] line \in {R_7, R_7 \o <<"\r">>} -> 7

\* the positions of the good rows in the export, in row order
GoodLines == SelectSeq([k \in 1..Len(lines) |-> k], LAMBDA k : k >= 2 /\ lines[k] \in GoodRows)

\* C16: once the header has passed validation, row parsing never aborts the
\* import: rows with too few fields or an id that is not an unsigned integer are
\* skipped, and every other row gives exactly one Product, in row order.
C16_RowParsing ==
    /\ (columnMap # <<>>) => (importErr # Error("panic") /\ exitCode # 2)
    /\ (columnMap # <<>> /\ pc = "import_bulk")
       => /\ Len(products) = Len(GoodLines)
          /\ \A i \in 1..Len(products) : products[i].ID = IdOfRow(lines[GoodLines[i]])

\* the search was answered with a decoded body whose total is absent or is not
\* a number, or that has no hits object at all
NoTotalAnswer ==
    Served /\ Len(esLog) = 1 /\ esLog[1].fault \in {"no_total", "bad_total", "no_hits_object"}

\* C17: when the decoded response has no total-hits field or a malformed one,
\* a response without hits object included, FindProducts succeeds with
\* total_count = 0.
C17_TotalDefault ==
    NoTotalAnswer
    => /\ esLog[1].outcome = "ok"
       /\ response.status = 200
       /\ response.pagination.total = 0

\* the search was answered with five hits, total 5: the document 3, a hit that
\* is a string, a hit whose source does not fit a Product, the document 1, and
\* a string again
MalformedAnswer == Served /\ Len(esLog) = 1 /\ esLog[1].fault = "malformed_hits"

\* C18: malformed hits are skipped and do not fail the query: the products are
\* the well-formed hits in their order, no more than there are hits, and the
\* total count is the one the response reports.
C18_MalformedHit ==
    MalformedAnswer
    => /\ esLog[1].outcome = "ok"
       /\ response.status = 200
       /\ Len(response.data) = 2
       /\ response.data[1].ID = 3 /\ response.data[1].ProductName = W_Aspirin
       /\ response.data[2].ID = 1 /\ response.data[2].ProductName = W_Aspirin
       /\ response.pagination.total = 5

\* such an answer on a listing with limit 2 at offset 1
C18_Witness ==
    /\ MalformedAnswer /\ response.status = 200
    /\ request.limit = <<"2">> /\ request.offset = <<"1">>
    /\ Len(response.data) = 2 /\ response.pagination.total = 5
    /\ response.pagination.total_pages = 3

\* the requests that the step of the import at hand adds to the log
NewCalls == SubSeq(esLog', Len(esLog) + 1, Len(esLog'))
NewCreates == SelectSeq(NewCalls, LAMBDA c : c.op = "create")

\* every bulk write of a run comes after the header validation and after the
\* existence probe of the run, and a run that ended on the index has none
EnsuredBeforeBulk ==
    /\ \A i \in 1..Len(esLog) :
         esLog[i].op = "bulk"
         => columnMap # <<>> /\ \E j \in 1..(i - 1) : esLog[j].op = "exists"
    /\ \A i \in 1..Len(esLog) : esLog[i].op = "exists" => columnMap # <<>>
    /\ importErr = Error("failed to create index") => BulkCalls = <<>>

\* the step that ensures the index: no creation request for an index that
\* exists, one for an index that the probe found absent, and an error that
\* ends the run when the probe or the creation failed
EnsureStep ==
    pc = "import_index"
    => /\ NewCalls # <<>> /\ NewCalls[1].op = "exists"
       /\ indices[cfg.Index].exists => NewCreates = <<>>
       /\ (~indices[cfg.Index].exists /\ NewCalls[1].status = 404)
          => Len(NewCreates) = 1
       /\ Len(NewCreates) <= 1
       /\ (\/ NewCalls[1].status \notin {200, 404}
           \/ (NewCreates # <<>> /\ NewCreates[1].outcome # "ok"))
          => /\ importErr' = Error("failed to create index")
             /\ pc' = "import_return"
             /\ indices' = indices

\* C19: the index is ensured after the header validation and before any bulk
\* write; an index that exists gets no creation request, an absent one exactly
\* one, and a failed probe or creation ends the run with an error and without
\* a bulk write.
C19_EnsureIndex == []EnsuredBeforeBulk /\ [][EnsureStep]_vars

\* the same, leaving aside the probes that the engine answers with status 500
C19_ProbeAnswered ==
    []EnsuredBeforeBulk
    /\ [][(pc = "import_index" /\ NewCalls[1].status # 500) => EnsureStep]_vars

\* Start has returned only after the signal had the listener closed; it has
\* not returned while the server waits for the signal; and it returned nil
\* exactly when no request was left in flight
StartReturn ==
    /\ (pc \in {"server_start", "serving", "shutting_down"}) => startErr = NoError
    /\ (startErr # NoError)
       => /\ ~listening
          /\ pc \in {"server_return", "exited"}
          /\ (startErr = NilError) = (request = NoRequest)
          /\ (pc = "exited") => (exitCode = 0) = (startErr = NilError)

\* C20: in server mode Start does not return before a termination signal; once
\* the signal is received the shutdown begins and Start eventually returns,
\* without error when the requests in flight finished within the timeout and
\* with an error when they did not.
C20_Start ==
    /\ []StartReturn
    /\ (pc = "shutting_down") ~> (startErr # NoError /\ ~listening)

\* Start returned the error of the timeout with a listing still in flight
C20_Witness ==
    /\ pc = "server_return" /\ startErr = Error("context deadline exceeded")
    /\ request.path = "/product" /\ response.status = 200 /\ ~listening

\* the steps of the import up to and including the index have succeeded: the
\* header is validated, the index has been probed, and the run did not end on it
IndexEnsured ==
    /\ importPath # <<>>
    /\ columnMap # <<>>
    /\ \E k \in 1..Len(esLog) : esLog[k].op = "exists"
    /\ importErr # Error("failed to create index")

\* C21: once the identifier extraction, the download, the line check, the
\* header validation and the index step of an import run have succeeded, the
\* run returns success to its caller whatever the bulk writes did, also when
\* every one of them failed and no document was indexed.
C21_BulkOutcomeIgnored ==
    (IndexEnsured /\ pc \in {"import_return", "exited"})
    => /\ importErr = NilError
       /\ (pc = "exited") => exitCode = 0

\* the same for the runs whose rows are parsed without a runtime failure
C21_ParsedRuns ==
    (IndexEnsured /\ pc \in {"import_return", "exited"} /\ importErr # Error("panic"))
    => /\ importErr = NilError
       /\ (pc = "exited") => exitCode = 0

\* the places <<k, j>> at which the bulk requests of the run carry product p
PlacesOf(p) ==
    {kj \in UNION {{<<k, j>> : j \in 1..Len(BulkCalls[k].docs)} : k \in 1..Len(BulkCalls)} :
        BulkCalls[kj[1]].docs[kj[2]].source = products[p]}

\* C22: in every import run each parsed product is carried by exactly one bulk
\* request, whether or not other bulk requests of the run fail, and the
\* requests carry the products in row order.
C22_ExactlyOnce ==
    (pc = "import_return" /\ importErr = NilError)
    => /\ \A p \in 1..Len(products) : Cardinality(PlacesOf(p)) = 1
       /\ \A k \in 1..Len(BulkCalls) : \A j \in 2..Len(BulkCalls[k].docs) :
            BulkCalls[k].docs[j - 1].source.ID < BulkCalls[k].docs[j].source.ID

\* the same for the runs without a bulk request that failed at the transport
C22_NoTransportFailure ==
    (\A k \in 1..Len(BulkCalls) : BulkCalls[k].outcome # "transport") => C22_ExactlyOnce

\* the documents that imports have written to the engine
WrittenDocs == UNION {{indices[n].docs[k] : k \in 1..Len(indices[n].docs)} : n \in IndexNames}

\* C23: for every unsigned 64-bit id accepted at import the document identifier
\* written is the decimal form of the id, the identifier converts back to the
\* id when result normalization re-parses it, for large values too, and the
\* Product made of the hit has the imported id.
C23_IdRoundTrip ==
    /\ \A k \in 1..Len(esLog) :
         esLog[k].op = "bulk"
         => \A j \in 1..Len(esLog[k].docs) :
              esLog[k].docs[j].id = FormatUint(esLog[k].docs[j].source.ID)
    /\ \A d \in WrittenDocs :
         /\ Atoi(d.id).ok
         /\ IntToUint64(Atoi(d.id).val) = d.source.ID
         /\ ~hitToProduct(Hit(d)).skip
         /\ hitToProduct(Hit(d)).product.ID = d.source.ID

\* the same without the conversion of the identifier: the identifier written is
\* the decimal form of the id and the Product of the hit has the imported id
C23_ProductId ==
    /\ \A k \in 1..Len(esLog) :
         esLog[k].op = "bulk"
         => \A j \in 1..Len(esLog[k].docs) :
              esLog[k].docs[j].id = FormatUint(esLog[k].docs[j].source.ID)
    /\ \A d \in WrittenDocs :
         /\ ~hitToProduct(Hit(d)).skip
         /\ hitToProduct(Hit(d)).product.ID = d.source.ID
         /\ (d.source.ID <= MaxInt) => Atoi(d.id) = [ok |-> TRUE, val |-> d.source.ID]

\* C24: for every configured value of the index name, the index that a
\* GET /product searches is the index that the import of the same
\* configuration creates and writes to, which is cfg.Elasticsearch.Index.
C24_SameIndex ==
    /\ \A k \in 1..Len(esLog) :
         esLog[k].op = "search" => esLog[k].index = cfg.Index
    /\ \A k \in 1..Len(esLog) :
         esLog[k].op \in ImportOps => esLog[k].index = cfg.Index

\* the same for the configurations that name the index "products"
C24_ProductsIndex ==
    (cfg.Index = RepositoryIndex) => C24_SameIndex

====
